---- MODULE Spec2Model ----
(***************************************************************************)
(* Model of the desktop bootstrap `run` of                                 *)
(* src/frontend-web/src-tauri/src/lib.rs: crash-reporting initialisation,  *)
(* builder-level plugin registration, the setup callback (debug logging,   *)
(* deep-link handler, sidecar resolution and spawn), the host run loop and *)
(* the final `expect` on the result of `run`.                              *)
(*                                                                         *)
(* Every call into the host framework has an outcome the bootstrap does    *)
(* not control; each is drawn with \E from the outcomes its call site      *)
(* distinguishes (`?`, `unwrap`, `expect`, or no check at all).            *)
(***************************************************************************)
EXTENDS Naturals, Sequences, FiniteSets

\* Largest number of deep-link requests delivered during one start.
MaxLinks == 2

VARIABLES
  pc,              \* position of the main thread inside `run`
  debug,           \* cfg!(debug_assertions) of this build
  guard,           \* `_guard`: outcome of sentry::init
  pending,         \* plugins handed to the builder, not yet initialised
  plugins,         \* plugins registered with the live host
  handler,         \* the "soulsense" deep-link callback is registered
  sidecar,         \* progress of sidecar resolution and spawn
  child,           \* the sidecar process
  handles,         \* values of `(_rx, _child)` still owned by the bootstrap
  spawnAttempts,   \* number of calls of `.spawn()`
  runLoopEntered,  \* the host run loop has been entered in this start
  runResult,       \* value returned by `Builder::run`
  links,           \* number of times the deep-link callback has run
  failed,          \* the step whose failure ended startup
  diagnostic,      \* message of the fatal termination
  exitCode,        \* <<>> while the process lives, <<code>> afterwards
  trace            \* steps the main thread has executed, in order

vars == <<pc, debug, guard, pending, plugins, handler, sidecar, child,
          handles, spawnAttempts, runLoopEntered, runResult, links, failed,
          diagnostic, exitCode, trace>>

BuilderPlugins == <<"shell", "updater", "deep-link">>

LogPlugin == "log:Info"

DeepLinkHandlerPlugin == "deep-link:soulsense"

Terminal == {"exited", "panicked"}

Init ==
  /\ pc = "sentry_init"
  /\ debug \in BOOLEAN
  /\ guard = "none"
  /\ pending = <<>>
  /\ plugins = <<>>
  /\ handler = FALSE
  /\ sidecar = "unresolved"
  /\ child = "none"
  /\ handles = {}
  /\ spawnAttempts = 0
  /\ runLoopEntered = FALSE
  /\ runResult = "none"
  /\ links = 0
  /\ failed = "none"
  /\ diagnostic = ""
  /\ exitCode = <<>>
  /\ trace = <<>>

\* A panic on the main thread: the process ends with the message and the
\* panic exit status; the registrations die with the process, the child and
\* everything else are left as they are.
Panic(step, msg) ==
  /\ pc' = "panicked"
  /\ failed' = step
  /\ diagnostic' = msg
  /\ exitCode' = <<101>>
  /\ handler' = FALSE
  /\ plugins' = <<>>

\* `?` inside the setup callback: the callback returns Err, which `run`
\* hands back to its caller.
\* Variant: the error of a setup registration is dropped and setup goes on.
SetupErrSwallowed(step) ==
  /\ pc' = "sidecar_resolve"
  /\ failed' = step
  /\ UNCHANGED runResult

SetupErr(step) ==
  /\ pc' = "expect"
  /\ failed' = step
  /\ runResult' = "Err"

\* Variant: the result of sentry::init is checked and a failure is fatal.
SentryInitChecked ==
  /\ pc = "sentry_init"
  /\ trace' = Append(trace, "sentry")
  /\ \E ok \in BOOLEAN :
       IF ok
         THEN /\ guard' = "enabled"
              /\ pc' = "builder"
              /\ UNCHANGED <<failed, diagnostic, exitCode, handler, plugins>>
         ELSE /\ guard' = "disabled"
              /\ Panic("sentry", "Failed to initialize sentry")
  /\ UNCHANGED <<debug, pending, sidecar, child, handles, spawnAttempts,
                 runLoopEntered, runResult, links>>

SentryInit ==
  /\ pc = "sentry_init"
  /\ \E ok \in BOOLEAN : guard' = IF ok THEN "enabled" ELSE "disabled"
  /\ pc' = "builder"
  /\ trace' = Append(trace, "sentry")
  /\ UNCHANGED <<debug, pending, plugins, handler, sidecar, child, handles,
                 spawnAttempts, runLoopEntered, runResult, links, failed,
                 diagnostic, exitCode>>

BuilderPlugin ==
  /\ pc = "builder"
  /\ Len(pending) < Len(BuilderPlugins)
  /\ pending' = Append(pending, BuilderPlugins[Len(pending) + 1])
  /\ trace' = Append(trace, "plugin")
  /\ UNCHANGED <<pc, debug, guard, plugins, handler, sidecar, child, handles,
                 spawnAttempts, runLoopEntered, runResult, links, failed,
                 diagnostic, exitCode>>

BuilderSetup ==
  /\ pc = "builder"
  /\ Len(pending) = Len(BuilderPlugins)
  /\ pc' = "build"
  /\ trace' = Append(trace, "setup")
  /\ UNCHANGED <<debug, guard, pending, plugins, handler, sidecar, child,
                 handles, spawnAttempts, runLoopEntered, runResult, links,
                 failed, diagnostic, exitCode>>

\* The host initialises the builder's plugins inside `run`, before it calls
\* the setup callback; a plugin that fails to initialise makes `run` return
\* Err.
Build ==
  /\ pc = "build"
  /\ trace' = Append(trace, "build")
  /\ \E bad \in 0 .. Len(pending) :
       IF bad = 0
         THEN /\ plugins' = pending
              /\ pc' = "setup_log"
              /\ UNCHANGED <<failed, runResult>>
         ELSE /\ plugins' = SubSeq(pending, 1, bad - 1)
              /\ pc' = "expect"
              /\ failed' = "plugin"
              /\ runResult' = "Err"
  /\ UNCHANGED <<debug, guard, pending, handler, sidecar, child, handles,
                 spawnAttempts, runLoopEntered, links, diagnostic, exitCode>>

\* Variant: the logging plugin is registered whatever the build configuration.
SetupLoggingAlways ==
  /\ pc = "setup_log"
  /\ trace' = Append(trace, "log")
  /\ \E ok \in BOOLEAN :
       IF ok
         THEN /\ plugins' = Append(plugins, LogPlugin)
              /\ pc' = "setup_deep_link"
              /\ UNCHANGED <<failed, runResult>>
         ELSE /\ SetupErr("log")
              /\ UNCHANGED plugins
  /\ UNCHANGED <<debug, guard, pending, handler, sidecar, child, handles,
                 spawnAttempts, runLoopEntered, links, diagnostic, exitCode>>

SetupLogging ==
  /\ pc = "setup_log"
  /\ IF debug
       THEN /\ trace' = Append(trace, "log")
            /\ \E ok \in BOOLEAN :
                 IF ok
                   THEN /\ plugins' = Append(plugins, LogPlugin)
                        /\ pc' = "setup_deep_link"
                        /\ UNCHANGED <<failed, runResult>>
                   ELSE /\ SetupErr("log")
                        /\ UNCHANGED plugins
       ELSE /\ pc' = "setup_deep_link"
            /\ UNCHANGED <<plugins, failed, runResult, trace>>
  /\ UNCHANGED <<debug, guard, pending, handler, sidecar, child, handles,
                 spawnAttempts, runLoopEntered, links, diagnostic, exitCode>>

SetupDeepLink ==
  /\ pc = "setup_deep_link"
  /\ trace' = Append(trace, "deep_link")
  /\ \E outcome \in {"ok", "register_err", "plugin_err"} :
       IF outcome = "ok"
         THEN /\ plugins' = Append(plugins, DeepLinkHandlerPlugin)
              /\ handler' = TRUE
              /\ pc' = "sidecar_resolve"
              /\ UNCHANGED <<failed, runResult>>
         ELSE /\ SetupErr("deep_link")
              /\ UNCHANGED <<plugins, handler>>
  /\ UNCHANGED <<debug, guard, pending, sidecar, child, handles,
                 spawnAttempts, runLoopEntered, links, diagnostic, exitCode>>

\* Variant: a sidecar that cannot be resolved is skipped instead of unwrapped.
SidecarResolveSkipping ==
  /\ pc = "sidecar_resolve"
  /\ trace' = Append(trace, "resolve")
  /\ \E ok \in BOOLEAN :
       IF ok
         THEN /\ sidecar' = "resolved"
              /\ pc' = "sidecar_spawn"
         ELSE /\ sidecar' = "resolve_failed"
              /\ pc' = "setup_return"
  /\ UNCHANGED <<debug, guard, pending, plugins, handler, child, handles,
                 spawnAttempts, runLoopEntered, runResult, links, failed,
                 diagnostic, exitCode>>

SidecarResolve ==
  /\ pc = "sidecar_resolve"
  /\ trace' = Append(trace, "resolve")
  /\ \E ok \in BOOLEAN :
       IF ok
         THEN /\ sidecar' = "resolved"
              /\ pc' = "sidecar_spawn"
              /\ UNCHANGED <<failed, diagnostic, exitCode, handler, plugins>>
         ELSE /\ sidecar' = "resolve_failed"
              /\ Panic("resolve", "called Result::unwrap() on an Err value")
  /\ UNCHANGED <<debug, guard, pending, child, handles, spawnAttempts,
                 runLoopEntered, runResult, links>>

\* Variant: a failed spawn is tried a second time before giving up.
SidecarSpawnRetrying ==
  /\ pc = "sidecar_spawn"
  /\ trace' = Append(trace, "spawn")
  /\ spawnAttempts' = spawnAttempts + 1
  /\ \E ok \in BOOLEAN :
       IF ok
         THEN /\ sidecar' = "spawned"
              /\ child' = "running"
              /\ handles' = {"rx", "child"}
              /\ pc' = "setup_return"
              /\ UNCHANGED <<failed, diagnostic, exitCode, handler, plugins>>
         ELSE IF spawnAttempts = 0
           THEN UNCHANGED <<pc, sidecar, child, handles, failed, diagnostic,
                            exitCode, handler, plugins>>
           ELSE /\ sidecar' = "spawn_failed"
                /\ Panic("spawn", "Failed to spawn sidecar")
                /\ UNCHANGED <<child, handles>>
  /\ UNCHANGED <<debug, guard, pending, runLoopEntered, runResult, links>>

SidecarSpawn ==
  /\ pc = "sidecar_spawn"
  /\ trace' = Append(trace, "spawn")
  /\ spawnAttempts' = spawnAttempts + 1
  /\ \E ok \in BOOLEAN :
       IF ok
         THEN /\ sidecar' = "spawned"
              /\ child' = "running"
              /\ handles' = {"rx", "child"}
              /\ pc' = "setup_return"
              /\ UNCHANGED <<failed, diagnostic, exitCode, handler, plugins>>
         ELSE /\ sidecar' = "spawn_failed"
              /\ Panic("spawn", "Failed to spawn sidecar")
              /\ UNCHANGED <<child, handles>>
  /\ UNCHANGED <<debug, guard, pending, runLoopEntered, runResult, links>>

\* Variant: dropping the child handle at the end of setup kills the child.
SetupReturnKillOnDrop ==
  /\ pc = "setup_return"
  /\ handles' = {}
  /\ child' = "killed"
  /\ pc' = "run_loop_start"
  /\ trace' = Append(trace, "setup_ok")
  /\ UNCHANGED <<debug, guard, pending, plugins, handler, sidecar,
                 spawnAttempts, runLoopEntered, runResult, links, failed,
                 diagnostic, exitCode>>

SetupReturn ==
  /\ pc = "setup_return"
  /\ handles' = {}
  /\ pc' = "run_loop_start"
  /\ trace' = Append(trace, "setup_ok")
  /\ UNCHANGED <<debug, guard, pending, plugins, handler, sidecar, child,
                 spawnAttempts, runLoopEntered, runResult, links, failed,
                 diagnostic, exitCode>>

RunLoopStart ==
  /\ pc = "run_loop_start"
  /\ trace' = Append(trace, "run_loop")
  /\ \E ok \in BOOLEAN :
       IF ok
         THEN /\ runLoopEntered' = TRUE
              /\ pc' = "run_loop"
              /\ UNCHANGED <<failed, runResult>>
         ELSE /\ pc' = "expect"
              /\ failed' = "run_loop"
              /\ runResult' = "Err"
              /\ UNCHANGED runLoopEntered
  /\ UNCHANGED <<debug, guard, pending, plugins, handler, sidecar, child,
                 handles, spawnAttempts, links, diagnostic, exitCode>>

\* Variant: the run loop reports a normal quit as an error.
QuitAsError ==
  /\ pc = "run_loop"
  /\ runResult' = "Err"
  /\ pc' = "expect"
  /\ trace' = Append(trace, "quit")
  /\ UNCHANGED <<debug, guard, pending, plugins, handler, sidecar, child,
                 handles, spawnAttempts, runLoopEntered, links, failed,
                 diagnostic, exitCode>>

Quit ==
  /\ pc = "run_loop"
  /\ runResult' = "Ok"
  /\ pc' = "expect"
  /\ trace' = Append(trace, "quit")
  /\ UNCHANGED <<debug, guard, pending, plugins, handler, sidecar, child,
                 handles, spawnAttempts, runLoopEntered, links, failed,
                 diagnostic, exitCode>>

\* Variant: the result of `run` is ignored and the process exits normally.
ExpectIgnored ==
  /\ pc = "expect"
  /\ trace' = Append(trace, "expect")
  /\ pc' = "exited"
  /\ exitCode' = <<0>>
  /\ handler' = FALSE
  /\ plugins' = <<>>
  /\ UNCHANGED <<debug, guard, pending, sidecar, child, handles,
                 spawnAttempts, runLoopEntered, runResult, links, failed,
                 diagnostic>>

Expect ==
  /\ pc = "expect"
  /\ trace' = Append(trace, "expect")
  /\ IF runResult = "Err"
       THEN Panic(failed, "error while running tauri application")
       ELSE /\ pc' = "exited"
            /\ exitCode' = <<0>>
            /\ handler' = FALSE
            /\ plugins' = <<>>
            /\ UNCHANGED <<failed, diagnostic>>
  /\ UNCHANGED <<debug, guard, pending, sidecar, child, handles,
                 spawnAttempts, runLoopEntered, runResult, links>>

\* Variant: the callback is delivered only once the sidecar is running.
DeepLinkReceivedAfterSidecar ==
  /\ handler
  /\ child = "running"
  /\ links < MaxLinks
  /\ links' = links + 1
  /\ UNCHANGED <<pc, debug, guard, pending, plugins, handler, sidecar, child,
                 handles, spawnAttempts, runLoopEntered, runResult, failed,
                 diagnostic, exitCode, trace>>

DeepLinkReceived ==
  /\ handler
  /\ links < MaxLinks
  /\ links' = links + 1
  /\ UNCHANGED <<pc, debug, guard, pending, plugins, handler, sidecar, child,
                 handles, spawnAttempts, runLoopEntered, runResult, failed,
                 diagnostic, exitCode, trace>>

Next ==
  \/ SentryInit
  \/ BuilderPlugin
  \/ BuilderSetup
  \/ Build
  \/ SetupLogging
  \/ SetupDeepLink
  \/ SidecarResolve
  \/ SidecarSpawn
  \/ SetupReturn
  \/ RunLoopStart
  \/ Quit
  \/ Expect
  \/ DeepLinkReceived

Spec == Init /\ [][Next]_vars

----------------------------------------------------------------------------
(* History helpers over the steps the main thread has executed.            *)

Ran(step) == \E i \in 1 .. Len(trace) : trace[i] = step

Pos(step) ==
  IF Ran(step)
    THEN CHOOSE i \in 1 .. Len(trace) :
           /\ trace[i] = step
           /\ \A j \in 1 .. (i - 1) : trace[j] # step
    ELSE 0

Registered(p) == \E i \in 1 .. Len(plugins) : plugins[i] = p

RunDiagnostic == "error while running tauri application"

----------------------------------------------------------------------------

\* C1: whenever resolving the sidecar or spawning it has failed, the process
\* has terminated by a panic inside setup (non-zero exit) and the run loop
\* has not been entered nor attempted in that start.
C1_SidecarFailureIsFatal ==
  sidecar \in {"resolve_failed", "spawn_failed"} =>
    /\ pc = "panicked"
    /\ exitCode = <<101>>
    /\ diagnostic # ""
    /\ ~runLoopEntered
    /\ ~Ran("setup_ok")
    /\ ~Ran("run_loop")

C1_Witness ==
  /\ sidecar = "resolve_failed"
  /\ pc = "panicked"
  /\ Ran("resolve")

\* C2 as stated: the spawn is attempted at most once, and exactly once in
\* every start that has reached a terminal state (run loop entered or
\* startup aborted), however the earlier steps turned out.
C2_SpawnOnceInEveryStart ==
  /\ spawnAttempts <= 1
  /\ (runLoopEntered \/ pc \in Terminal) => spawnAttempts = 1

\* C2 amended: the spawn is attempted at most once per start (no retry after
\* a failed spawn); in a start that has reached a terminal state it was
\* attempted exactly once if builder plugin initialisation, the setup
\* registrations and sidecar resolution all succeeded, and not at all
\* otherwise; the outcome of crash-reporting initialisation plays no part.
C2_SpawnAtMostOnce ==
  /\ spawnAttempts <= 1
  /\ (runLoopEntered \/ pc \in Terminal) =>
       (spawnAttempts = 1 <=>
          failed \notin {"plugin", "log", "deep_link", "resolve"})
  /\ spawnAttempts = 1 <=> Ran("spawn")

C2_Witness ==
  /\ pc = "panicked"
  /\ failed = "spawn"
  /\ spawnAttempts = 1
  /\ guard = "disabled"

\* C3: in a debug build the logging plugin (level Info) has been registered
\* successfully, and earlier, whenever the deep-link handler step or the
\* sidecar steps have run; in a release build the logging step never runs
\* and the logging plugin is never registered.
C3_LoggingOnlyInDebug ==
  /\ debug =>
       /\ \A s \in {"deep_link", "resolve", "spawn"} :
            Ran(s) => (0 < Pos("log") /\ Pos("log") < Pos(s) /\ failed # "log")
       /\ (Ran("deep_link") /\ pc \notin Terminal) => Registered(LogPlugin)
  /\ ~debug => (~Ran("log") /\ ~Registered(LogPlugin))

C3_Witness ==
  /\ debug
  /\ Ran("spawn")
  /\ Registered(LogPlugin)

\* C4: once a plugin registration has failed (builder-level plugins, the
\* debug logging plugin or the deep-link handler), `run` returns an error,
\* no later setup step has run (the sidecar is neither resolved nor spawned)
\* and the run loop is never entered.
C4_RegistrationFailureAbortsSetup ==
  failed \in {"plugin", "log", "deep_link"} =>
    /\ runResult = "Err"
    /\ pc \in {"expect", "panicked"}
    /\ ~runLoopEntered
    /\ sidecar = "unresolved"
    /\ child = "none"
    /\ spawnAttempts = 0
    /\ ~handler
    /\ \A s \in {"resolve", "spawn", "setup_ok", "run_loop"} : ~Ran(s)
    /\ failed = "plugin" => (~Ran("log") /\ ~Ran("deep_link"))
    /\ failed = "log" => ~Ran("deep_link")

C4_Witness ==
  /\ failed = "deep_link"
  /\ pc = "panicked"
  /\ diagnostic = RunDiagnostic

C7_SuccessfulStart ==
  /\ runLoopEntered =>
       /\ sidecar = "spawned"
       /\ child = "running"
       /\ spawnAttempts = 1
       /\ 0 < Pos("build")
       /\ Pos("build") < Pos("deep_link")
       /\ Pos("deep_link") < Pos("spawn")
       /\ Pos("spawn") < Pos("setup_ok")
       /\ Pos("setup_ok") < Pos("run_loop")
  /\ (failed = "none" /\ pc \in Terminal) => (runLoopEntered /\ Ran("quit"))
  /\ (Ran("quit") /\ pc \in Terminal) => (pc = "exited" /\ exitCode = <<0>>)

C7_Witness ==
  /\ pc = "exited"
  /\ exitCode = <<0>>
  /\ runLoopEntered
  /\ spawnAttempts = 1

\* C8: when `run` has returned an error, the next step of the main thread
\* is a panic with the diagnostic 'error while running tauri application'
\* that leaves the sidecar exactly as it was; that diagnostic appears in no
\* other way.
C8_RunErrorIsFatalWithoutCleanup ==
  /\ [][(pc = "expect" /\ runResult = "Err" /\ pc' # pc) =>
          /\ pc' = "panicked"
          /\ diagnostic' = RunDiagnostic
          /\ exitCode' = <<101>>
          /\ child' = child
          /\ sidecar' = sidecar
          /\ spawnAttempts' = spawnAttempts]_vars
  /\ [](diagnostic = RunDiagnostic => (pc = "panicked" /\ runResult = "Err"))
  /\ []((runResult = "Err" /\ pc \in Terminal) => diagnostic = RunDiagnostic)

C8_Witness ==
  /\ diagnostic = RunDiagnostic
  /\ pc = "panicked"
  /\ child = "running"

\* C9: whatever the outcome of crash-reporting initialisation, the next
\* step is the construction of the host builder with the process alive, and
\* no termination of a start is ever caused by that initialisation.
C9_SentryFailureNotFatal ==
  /\ [][pc = "sentry_init" =>
          /\ pc' = "builder"
          /\ guard' \in {"enabled", "disabled"}
          /\ exitCode' = <<>>
          /\ failed' = "none"
          /\ diagnostic' = ""]_vars
  /\ [](failed # "sentry")
  /\ []((guard = "disabled" /\ failed = "none" /\ pc \in Terminal) =>
          (runLoopEntered /\ exitCode = <<0>>))

C9_Witness ==
  /\ guard = "disabled"
  /\ runLoopEntered
  /\ pc = "run_loop"
  /\ Registered("shell")

\* C10: once the child runs, no step changes its state, application exit
\* included; the event channel and the child handle are owned only between
\* the spawn and the return of setup and are dropped there.
C10_NoLifecycleManagement ==
  /\ [][child = "running" => child' = "running"]_vars
  /\ [](handles # {} => (pc = "setup_return" /\ handles = {"rx", "child"}))
  /\ [](Ran("setup_ok") => (handles = {} /\ child = "running"))

C10_Witness ==
  /\ pc = "exited"
  /\ child = "running"
  /\ handles = {}

====
